---- MODULE Spec2Model ----
(***************************************************************************)
(* Model of the WebSocket notification fan-out of the Core API.            *)
(*                                                                         *)
(* The repository holds two WebSocketManager implementations:              *)
(*   - src/unnamed/part_009: the manager built on the `ws` library         *)
(*     (handshake checks, one shared keepalive interval);  Spec            *)
(*   - src/unnamed/part_008: the manager built on Bun's native socket      *)
(*     (handleConnection, one ping interval per client);   SpecBun         *)
(* Both share the registry (`clients`), handleMessage, broadcast,          *)
(* sendToServers, sendToProxy and the notify* methods, which are           *)
(* line-for-line the same in the two files.                                *)
(*                                                                         *)
(* A connection is identified by the order in which it was accepted.       *)
(* sent[c] is the sequence of data frames the handler that ran last wrote  *)
(* to c's transport; pings[c] counts heartbeat probes written to c that c  *)
(* has not answered yet.                                                   *)
(***************************************************************************)
EXTENDS Integers, Sequences, FiniteSets, TLC

\* ---------------------------------------------------------------- bounds
MaxConns == 2      \* connection attempts accepted in one run
MaxPings == 2      \* unanswered probes outstanding on one transport

Conns == 1..MaxConns

\* ---------------------------------------------------------------- inputs
NULL == "<null>"                     \* URLSearchParams.get() of an absent parameter
Secrets == {"", "k1"}                \* process.env.API_KEY || ''
Keys == {NULL, "", "k1"}             \* api_key query parameter: absent, empty, "k1"

\* connection URLs tried against the `ws` manager, <<api_key, type, name>>:
\* every key with each of the two known tokens, and the empty and the real
\* key with an unknown token and with no token
Requests ==
  {<<k, "bungee", "lobby">> : k \in Keys} \cup {<<k, "paper", NULL>> : k \in {NULL, "k1"}}
    \cup { <<"", "paper", "">>, <<"k1", "invalid", NULL>>, <<"", "invalid", "lobby">>,
           <<"k1", NULL, NULL>>, <<"", NULL, "lobby">> }

\* connection URLs tried against the Bun manager
BunRequests ==
  { <<"k1", "bungee", "lobby">>, <<"k1", "paper", NULL>>, <<"", "paper", NULL>>,
    <<NULL, "bungee", "lobby">>, <<"k1", "invalid", NULL>>, <<"k1", NULL, NULL>> }

Players == {"p1"}
Ranks   == {"vip"}
PunishmentTypes == {"BAN"}

\* inbound frame bodies, by what JSON.parse makes of them
Datas == {"{\"type\":\"CHAT\"}", " 42", "null", "{oops"}

VARIABLES
  API_KEY,        \* the configured shared secret ('' when unset)
  nextId,         \* id the next accepted transport gets
  req,            \* req[c]: the query parameters c connected with
  readyState,     \* readyState[c]: "NONE" (not accepted yet), "OPEN", "CLOSING", "CLOSED"
  isAlive,        \* client.isAlive
  authenticated,  \* client.authenticated
  serverType,     \* client.serverType: "undefined", "proxy", "server"
  serverName,     \* client.serverName: "undefined" or a name
  clients,        \* the registry: Set<AuthenticatedWebSocket>
  sent,           \* sent[c]: frames the last handler wrote to c with send()
  dispatch,       \* the frame the last handler dispatched (NoFrame when it dispatched none)
  pings,          \* pings[c]: probes written to c and not yet answered
  evicted,        \* connections the keepalive interval called terminate() on
  pingInterval,   \* Bun manager: connections whose own ping interval is armed
  interval,       \* `ws` manager: the keepalive setInterval is armed
  broken,         \* open transports whose socket fails every write (error not reported yet)
  thrown,         \* the last handler raised an exception to its caller
  inbound,        \* the inbound frame the last handler received (NoInbound when none)
  phase,          \* the process: "running", "stopping" (shutdown began), "exited"
  grants,         \* storage: grants[id], the row of table grants ("none" when absent)
  ranks,          \* storage: ids of the rows of table ranks
  players,        \* storage: uuids of the rows of table players
  punishments,    \* storage: punishments[id], the row of table punishments
  call,           \* the HTTP request being served and the statement it has reached
  response        \* the HTTP response the last handler wrote (NoResponse when none)

\* the state of the REST layer: storage, and the request in hand
\* (call.pc: "handler", "execute", "read" while a handler runs, "done" when
\* none does)
apiVars == <<grants, ranks, players, punishments, call>>

vars == <<API_KEY, nextId, req, readyState, isAlive, authenticated, serverType,
          serverName, clients, sent, dispatch, pings, evicted, pingInterval,
          interval, broken, thrown, inbound, phase,
          grants, ranks, players, punishments, call, response>>

NoReq == [api_key |-> NULL, type |-> NULL, name |-> NULL]

\* no inbound frame
NoInbound == [from |-> 0, data |-> NULL]

\* ---------------------------------------------------------------- frames
NoFrame == [type |-> "NONE"]
ErrorFrame(message) == [type |-> "ERROR", message |-> message]
ConnectedFrame(role, name) ==
  [type |-> "CONNECTED", serverType |-> role, serverName |-> name]
GrantChangeFrame(playerUuid) == [type |-> "GRANT_CHANGE", playerUuid |-> playerUuid]
RankChangeFrame(rankId) == [type |-> "RANK_CHANGE", rankId |-> rankId]
PlayerUpdateFrame(playerUuid) == [type |-> "PLAYER_UPDATE", playerUuid |-> playerUuid]
PunishExecuteFrame(playerUuid, punishmentType) ==
  [type |-> "PUNISH_EXECUTE", playerUuid |-> playerUuid, punishmentType |-> punishmentType]
PrivateMessageFrame(targetPlayer) == [type |-> "PRIVATE_MESSAGE", targetPlayer |-> targetPlayer]
\* a rebroadcast inbound frame: the re-encoded body, tagged with the connection it came from
RawFrame(json, sender) == [type |-> "RAW", json |-> json, from |-> sender]

\* ---------------------------------------------------------------- transport
\* nothing written
NoSend == [c \in Conns |-> <<>>]

\* ws.send(): the frame goes out when the transport is OPEN; after close()
\* or terminate() the library drops it (sendAfterClose).
send(w, c, frame) ==
  IF readyState[c] = "OPEN" THEN [w EXCEPT ![c] = Append(@, frame)] ELSE w

\* a ping() that writes two probes
ping_Twice(p, c) ==
  IF readyState[c] = "OPEN" THEN [p EXCEPT ![c] = @ + 2] ELSE p

\* ws.ping(): same rule as send().
ping(p, c) ==
  IF readyState[c] = "OPEN" THEN [p EXCEPT ![c] = @ + 1] ELSE p

\* ws.close(code, reason): starts the closing handshake.
close(rs, c) ==
  IF rs[c] = "OPEN" THEN [rs EXCEPT ![c] = "CLOSING"] ELSE rs

\* ws.terminate(): destroys the socket; the 'close' event follows later.
terminate(rs, c) ==
  IF rs[c] = "CLOSED" THEN rs ELSE [rs EXCEPT ![c] = "CLOSING"]

\* ---------------------------------------------------------------- storage
GrantIds == {1}                      \* ids of table grants
PunishmentIds == {1}                 \* ids of table punishments
StoredTypes == {"BAN", "MUTE"}       \* punishments.type: one that kicks, one that does not

NoRow == [exists |-> FALSE]

\* a row of grants; expired: expires_at IS NOT NULL AND expires_at <= now
GrantRow(playerUuid, isActive) ==
  [exists |-> TRUE, playerUuid |-> playerUuid, isActive |-> isActive, expired |-> FALSE]
PlayerRow(isOnline) == [exists |-> TRUE, isOnline |-> isOnline]
\* a row of punishments, active when stored; expired as for grants
PunishmentRow(playerUuid, type, executed) ==
  [exists |-> TRUE, playerUuid |-> playerUuid, type |-> type, executed |-> executed,
   isActive |-> TRUE, expired |-> FALSE]

\* the tables right after createTable() on a fresh database
InitStorage ==
  /\ grants = [i \in GrantIds |-> NoRow]
  /\ ranks = {}
  /\ players = [p \in Players |-> NoRow]
  /\ punishments = [i \in PunishmentIds |-> NoRow]

\* ---------------------------------------------------------------- HTTP requests
Health == "GET /api/health"

\* requests tried against the REST layer, <<route, id, name, flag>>
ApiCalls ==
  { <<Health, 0, NULL, FALSE>>,
    <<"GET /api/grants/:id", 1, NULL, FALSE>>,
    <<"POST /api/grants", 0, "p1", TRUE>>,
    <<"PUT /api/grants/:id/active", 1, NULL, FALSE>>,
    <<"DELETE /api/grants/:id", 1, NULL, FALSE>>,
    <<"DELETE /api/grants/player/:uuid", 0, "p1", FALSE>>,
    <<"POST /api/ranks", 0, "vip", FALSE>>,
    <<"DELETE /api/ranks/:id", 0, "vip", FALSE>>,
    <<"POST /api/players", 0, "p1", TRUE>>,
    <<"PUT /api/players/:uuid/online", 0, "p1", FALSE>>,
    <<"POST /api/punishments", 0, "BAN", FALSE>>,
    <<"POST /api/punishments", 0, "MUTE", FALSE>>,
    <<"POST /api/punishments/:id/execute", 1, NULL, FALSE>> }

\* the X-API-Key header each request is tried with: absent and "k1" on every
\* route, empty on three of them, and a key that is not the secret on two
HttpRequests ==
  {<<q, k>> : q \in ApiCalls, k \in {NULL, "k1"}}
    \cup {<<q, "">> : q \in {<<Health, 0, NULL, FALSE>>,
                              <<"POST /api/grants", 0, "p1", TRUE>>,
                              <<"POST /api/punishments/:id/execute", 1, NULL, FALSE>>}}
    \cup {<<q, "k2">> : q \in {<<"POST /api/grants", 0, "p1", TRUE>>,
                                <<"DELETE /api/ranks/:id", 0, "vip", FALSE>>}}

\* no HTTP response written
NoResponse == [status |-> 0, route |-> "none", key |-> NULL, kicked |-> FALSE]

\* a response: its status, the request it answers, and the kicked field of its
\* body (false on every route but execute)
Reply(status, route, apiKey) ==
  [status |-> status, route |-> route, key |-> apiKey, kicked |-> FALSE]

\* no request in hand
NoCall == [route |-> "none", key |-> NULL, id |-> 0, name |-> NULL, flag |-> FALSE,
           pc |-> "done"]

Init ==
  /\ API_KEY \in Secrets
  /\ nextId = 1
  /\ req = [c \in Conns |-> NoReq]
  /\ readyState = [c \in Conns |-> "NONE"]
  /\ isAlive = [c \in Conns |-> FALSE]
  /\ authenticated = [c \in Conns |-> FALSE]
  /\ serverType = [c \in Conns |-> "undefined"]
  /\ serverName = [c \in Conns |-> "undefined"]
  /\ clients = {}
  /\ sent = [c \in Conns |-> <<>>]
  /\ dispatch = NoFrame
  /\ pings = [c \in Conns |-> 0]
  /\ evicted = {}
  /\ pingInterval = {}
  /\ interval = TRUE
  /\ broken = {}
  /\ thrown = FALSE
  /\ inbound = NoInbound
  /\ phase = "running"
  /\ InitStorage
  /\ call = NoCall
  /\ response = NoResponse

\* ---------------------------------------------------------------- handshake
\* `!x` of JavaScript for a query parameter: absent or empty
Falsy(x) == x = NULL \/ x = ""

\* the role a type parameter resolves to in the `ws` manager
RoleOf(typeParam) ==
  IF typeParam = "bungee" THEN "proxy"
  ELSE IF typeParam = "paper" THEN "server"
  ELSE "undefined"

\* a label read without its default
NameOf_Raw(nameParam) == nameParam

\* url.searchParams.get('name') || 'unknown'
NameOf(nameParam) == IF Falsy(nameParam) THEN "unknown" ELSE nameParam

\* a secret check that lets every key through
KeyRejected_Never(apiKey, secret) == FALSE

\* the secret check of the `ws` manager: apiKey !== API_KEY
KeyRejected(apiKey, secret) == apiKey # secret

\* a handshake that registers the connection and writes it no welcome frame
Connection_NoWelcome(apiKey, typeParam, nameParam) ==
  LET c == nextId
      open == [readyState EXCEPT ![c] = "OPEN"]
  IN
  /\ phase = "running"
  /\ nextId <= MaxConns
  /\ nextId' = nextId + 1
  /\ req' = [req EXCEPT ![c] = [api_key |-> apiKey, type |-> typeParam, name |-> nameParam]]
  /\ isAlive' = [isAlive EXCEPT ![c] = TRUE]
  /\ IF KeyRejected(apiKey, API_KEY) THEN
       /\ sent' = [NoSend EXCEPT ![c] = <<ErrorFrame("Authentication failed")>>]
       /\ readyState' = close(open, c)
       /\ UNCHANGED <<authenticated, serverType, serverName, clients>>
     ELSE IF Falsy(typeParam) THEN
       /\ sent' = [NoSend EXCEPT ![c] = <<ErrorFrame("Missing type parameter")>>]
       /\ readyState' = close(open, c)
       /\ UNCHANGED <<authenticated, serverType, serverName, clients>>
     ELSE IF RoleOf(typeParam) = "undefined" THEN
       /\ sent' = [NoSend EXCEPT ![c] =
                     <<ErrorFrame("Invalid type parameter. Use: bungee or paper")>>]
       /\ readyState' = close(open, c)
       /\ UNCHANGED <<authenticated, serverType, serverName, clients>>
     ELSE
       /\ readyState' = open
       /\ authenticated' = [authenticated EXCEPT ![c] = TRUE]
       /\ serverType' = [serverType EXCEPT ![c] = RoleOf(typeParam)]
       /\ serverName' = [serverName EXCEPT ![c] = NameOf(nameParam)]
       /\ clients' = clients \cup {c}
       /\ sent' = NoSend
  /\ dispatch' = NoFrame
  /\ thrown' = FALSE
  /\ inbound' = NoInbound
  /\ response' = NoResponse
  /\ UNCHANGED <<interval, phase>>
  /\ UNCHANGED apiVars
  /\ UNCHANGED <<API_KEY, pings, evicted, pingInterval, broken>>

\* `ws` manager: the wss.on('connection') handler. The transport is OPEN when
\* the handler runs.
Connection(apiKey, typeParam, nameParam) ==
  LET c == nextId
      open == [readyState EXCEPT ![c] = "OPEN"]
  IN
  /\ phase = "running"
  /\ nextId <= MaxConns
  /\ nextId' = nextId + 1
  /\ req' = [req EXCEPT ![c] = [api_key |-> apiKey, type |-> typeParam, name |-> nameParam]]
  /\ isAlive' = [isAlive EXCEPT ![c] = TRUE]
  /\ IF KeyRejected(apiKey, API_KEY) THEN
       /\ sent' = [NoSend EXCEPT ![c] = <<ErrorFrame("Authentication failed")>>]
       /\ readyState' = close(open, c)
       /\ UNCHANGED <<authenticated, serverType, serverName, clients>>
     ELSE IF Falsy(typeParam) THEN
       /\ sent' = [NoSend EXCEPT ![c] = <<ErrorFrame("Missing type parameter")>>]
       /\ readyState' = close(open, c)
       /\ UNCHANGED <<authenticated, serverType, serverName, clients>>
     ELSE IF RoleOf(typeParam) = "undefined" THEN
       /\ sent' = [NoSend EXCEPT ![c] =
                     <<ErrorFrame("Invalid type parameter. Use: bungee or paper")>>]
       /\ readyState' = close(open, c)
       /\ UNCHANGED <<authenticated, serverType, serverName, clients>>
     ELSE
       /\ readyState' = open
       /\ authenticated' = [authenticated EXCEPT ![c] = TRUE]
       /\ serverType' = [serverType EXCEPT ![c] = RoleOf(typeParam)]
       /\ serverName' = [serverName EXCEPT ![c] = NameOf(nameParam)]
       /\ clients' = clients \cup {c}
       /\ sent' = [NoSend EXCEPT ![c] =
                     <<ConnectedFrame(RoleOf(typeParam), NameOf(nameParam))>>]
  /\ dispatch' = NoFrame
  /\ thrown' = FALSE
  /\ inbound' = NoInbound
  /\ response' = NoResponse
  /\ UNCHANGED <<interval, phase>>
  /\ UNCHANGED apiVars
  /\ UNCHANGED <<API_KEY, pings, evicted, pingInterval, broken>>

\* ---------------------------------------------------------------- transport events
\* The event handlers (pong, message, close, error) are registered at the end
\* of a successful handshake, at the point where authenticated becomes true.
HasHandlers(c) == authenticated[c]

\* The peer starts the closing handshake: the library moves to CLOSING and
\* emits 'close' only once the socket is gone.
RemoteClose(c) ==
  /\ phase # "exited"
  /\ readyState[c] = "OPEN"
  /\ broken' = broken \ {c}
  /\ readyState' = [readyState EXCEPT ![c] = "CLOSING"]
  /\ sent' = NoSend
  /\ dispatch' = NoFrame
  /\ thrown' = FALSE
  /\ inbound' = NoInbound
  /\ response' = NoResponse
  /\ UNCHANGED <<interval, phase>>
  /\ UNCHANGED apiVars
  /\ UNCHANGED <<API_KEY, nextId, req, isAlive, authenticated, serverType, serverName,
                 clients, pings, evicted, pingInterval>>

\* a close handler that forgets clients.delete
OnClose_KeepsClient(c) ==
  /\ phase # "exited"
  /\ readyState[c] \in {"OPEN", "CLOSING"}
  /\ broken' = broken \ {c}
  /\ HasHandlers(c)
  /\ readyState' = [readyState EXCEPT ![c] = "CLOSED"]
  /\ clients' = clients
  /\ pings' = [pings EXCEPT ![c] = 0]
  /\ sent' = NoSend
  /\ dispatch' = NoFrame
  /\ thrown' = FALSE
  /\ inbound' = NoInbound
  /\ response' = NoResponse
  /\ UNCHANGED <<interval, phase>>
  /\ UNCHANGED apiVars
  /\ UNCHANGED <<API_KEY, nextId, req, isAlive, authenticated, serverType, serverName,
                 evicted, pingInterval>>

\* the member a removal by position takes out: indexOf is -1 for an absent
\* connection, and splice(-1, 1) removes the last member
Spliced(c) ==
  IF c \in clients \/ clients = {} THEN clients \ {c}
  ELSE clients \ {CHOOSE d \in clients : \A e \in clients : e <= d}

\* a close handler that removes by position in a list
OnClose_Splice(c) ==
  /\ phase # "exited"
  /\ readyState[c] \in {"OPEN", "CLOSING"}
  /\ broken' = broken \ {c}
  /\ HasHandlers(c)
  /\ readyState' = [readyState EXCEPT ![c] = "CLOSED"]
  /\ clients' = Spliced(c)
  /\ pings' = [pings EXCEPT ![c] = 0]
  /\ sent' = NoSend
  /\ dispatch' = NoFrame
  /\ thrown' = FALSE
  /\ inbound' = NoInbound
  /\ response' = NoResponse
  /\ UNCHANGED <<interval, phase>>
  /\ UNCHANGED apiVars
  /\ UNCHANGED <<API_KEY, nextId, req, isAlive, authenticated, serverType, serverName,
                 evicted, pingInterval>>

\* client.on('close'): the socket is gone (after a closing handshake, after
\* terminate(), or abruptly), and with it the probes still unanswered on it.
\* A rejected connection has no close handler.
OnClose(c) ==
  /\ phase # "exited"
  /\ readyState[c] \in {"OPEN", "CLOSING"}
  /\ broken' = broken \ {c}
  /\ HasHandlers(c)
  /\ readyState' = [readyState EXCEPT ![c] = "CLOSED"]
  /\ clients' = clients \ {c}
  /\ pings' = [pings EXCEPT ![c] = 0]
  /\ sent' = NoSend
  /\ dispatch' = NoFrame
  /\ thrown' = FALSE
  /\ inbound' = NoInbound
  /\ response' = NoResponse
  /\ UNCHANGED <<interval, phase>>
  /\ UNCHANGED apiVars
  /\ UNCHANGED <<API_KEY, nextId, req, isAlive, authenticated, serverType, serverName,
                 evicted, pingInterval>>

\* an error that leaves the transport open
OnError_StaysOpen(c) ==
  /\ phase # "exited"
  /\ readyState[c] = "OPEN"
  /\ broken' = broken \ {c}
  /\ HasHandlers(c)
  /\ readyState' = readyState
  /\ clients' = clients \ {c}
  /\ sent' = NoSend
  /\ dispatch' = NoFrame
  /\ thrown' = FALSE
  /\ inbound' = NoInbound
  /\ response' = NoResponse
  /\ UNCHANGED <<interval, phase>>
  /\ UNCHANGED apiVars
  /\ UNCHANGED <<API_KEY, nextId, req, isAlive, authenticated, serverType, serverName,
                 pings, evicted, pingInterval>>

\* client.on('error'): the library has already left OPEN when it emits 'error';
\* 'close' follows.
OnError(c) ==
  /\ phase # "exited"
  /\ readyState[c] = "OPEN"
  /\ broken' = broken \ {c}
  /\ HasHandlers(c)
  /\ readyState' = [readyState EXCEPT ![c] = "CLOSING"]
  /\ clients' = clients \ {c}
  /\ sent' = NoSend
  /\ dispatch' = NoFrame
  /\ thrown' = FALSE
  /\ inbound' = NoInbound
  /\ response' = NoResponse
  /\ UNCHANGED <<interval, phase>>
  /\ UNCHANGED apiVars
  /\ UNCHANGED <<API_KEY, nextId, req, isAlive, authenticated, serverType, serverName,
                 pings, evicted, pingInterval>>

\* a pong handler that forgets to set isAlive
OnPong_NoFlag(c) ==
  /\ phase # "exited"
  /\ readyState[c] = "OPEN"
  /\ UNCHANGED broken
  /\ HasHandlers(c)
  /\ pings[c] > 0
  /\ pings' = [pings EXCEPT ![c] = 0]
  /\ sent' = NoSend
  /\ dispatch' = NoFrame
  /\ thrown' = FALSE
  /\ inbound' = NoInbound
  /\ response' = NoResponse
  /\ UNCHANGED <<interval, phase>>
  /\ UNCHANGED apiVars
  /\ UNCHANGED <<API_KEY, nextId, req, readyState, isAlive, authenticated, serverType,
                 serverName, clients, evicted, pingInterval>>

\* client.on('pong'): the peer answers the outstanding probe.
OnPong(c) ==
  /\ phase # "exited"
  /\ readyState[c] = "OPEN"
  /\ UNCHANGED broken
  /\ HasHandlers(c)
  /\ pings[c] > 0
  /\ isAlive' = [isAlive EXCEPT ![c] = TRUE]
  /\ pings' = [pings EXCEPT ![c] = 0]
  /\ sent' = NoSend
  /\ dispatch' = NoFrame
  /\ thrown' = FALSE
  /\ inbound' = NoInbound
  /\ response' = NoResponse
  /\ UNCHANGED <<interval, phase>>
  /\ UNCHANGED apiVars
  /\ UNCHANGED <<API_KEY, nextId, req, readyState, authenticated, serverType, serverName,
                 clients, evicted, pingInterval>>

\* ---------------------------------------------------------------- keepalive
\* the setInterval callback of the `ws` manager
KeepaliveInterval ==
  LET dead == {c \in clients : isAlive[c] = FALSE}
      live == clients \ dead
  IN
  /\ phase # "exited"
  /\ interval
  /\ clients # {}
  /\ broken' = broken \ dead
  /\ readyState' = [c \in Conns |->
                      IF c \in dead THEN terminate(readyState, c)[c] ELSE readyState[c]]
  /\ evicted' = evicted \cup dead
  /\ isAlive' = [c \in Conns |-> IF c \in live THEN FALSE ELSE isAlive[c]]
  /\ pings' = [c \in Conns |-> IF c \in live THEN ping(pings, c)[c] ELSE pings[c]]
  /\ sent' = NoSend
  /\ dispatch' = NoFrame
  /\ thrown' = FALSE
  /\ inbound' = NoInbound
  /\ response' = NoResponse
  /\ UNCHANGED <<interval, phase>>
  /\ UNCHANGED apiVars
  /\ UNCHANGED <<API_KEY, nextId, req, authenticated, serverType, serverName,
                 clients, pingInterval>>

\* ---------------------------------------------------------------- dispatch
\* a send() that throws when the socket fails the write
sendThrows_OnFailure(c) == c \in broken

\* whether client.send(data) throws: on an OPEN transport send() hands the
\* frame to the socket and returns; a failed write is reported later, through
\* the socket's own events.
sendThrows(c) == FALSE

\* a forEach that writes to every member, whatever the condition
forEachSend_AllMembers(selected, frame) ==
  [c \in Conns |-> IF c \in clients THEN <<frame>> ELSE <<>>]

\* a forEach that writes every frame twice
forEachSend_Twice(selected, frame) ==
  [c \in Conns |-> IF c \in selected THEN send(send(NoSend, c, frame), c, frame)[c] ELSE <<>>]

\* clients.forEach(...) with a per-client condition: one send() per selected
\* client, in insertion order; an exception thrown by a send() ends the loop.
forEachSend(selected, frame) ==
  [c \in Conns |->
     IF c \in selected /\ \A d \in selected : d < c => ~sendThrows(d)
       THEN send(NoSend, c, frame)[c] ELSE <<>>]

\* whether a dispatch that wrote w ended with an exception
Raised(w) == \E c \in Conns : w[c] # <<>> /\ sendThrows(c)

NoClient == 0

\* broadcast that reaches game servers only
broadcast_ServersOnly(frame, excludeClient) ==
  forEachSend({c \in clients : c # excludeClient /\ serverType[c] = "server"
                                /\ readyState[c] = "OPEN"}, frame)

\* broadcast that does not skip the excluded client
broadcast_NoExclude(frame, excludeClient) ==
  forEachSend({c \in clients : readyState[c] = "OPEN"}, frame)

broadcast(frame, excludeClient) ==
  forEachSend({c \in clients : c # excludeClient /\ readyState[c] = "OPEN"}, frame)

\* sendToServers without the serverType test
sendToServers_AnyRole(frame) ==
  forEachSend({c \in clients : readyState[c] = "OPEN"}, frame)

sendToServers(frame) ==
  forEachSend({c \in clients : serverType[c] = "server" /\ readyState[c] = "OPEN"}, frame)

\* sendToProxy without the serverType test
sendToProxy_AnyRole(frame) ==
  forEachSend({c \in clients : readyState[c] = "OPEN"}, frame)

sendToProxy(frame) ==
  forEachSend({c \in clients : serverType[c] = "proxy" /\ readyState[c] = "OPEN"}, frame)

sendToType(type, frame) ==
  forEachSend({c \in clients : serverType[c] = type /\ readyState[c] = "OPEN"}, frame)

\* the state of the manager, apart from the record of the last handler
wsVars == <<API_KEY, nextId, req, readyState, isAlive, authenticated, serverType,
            serverName, clients, pings, evicted, pingInterval, interval, broken, phase>>

Dispatch(frame, w) ==
  /\ phase # "exited"
  /\ dispatch' = frame
  /\ sent' = w
  /\ thrown' = Raised(w)
  /\ inbound' = NoInbound
  /\ UNCHANGED wsVars

notifyGrantChange(playerUuid) ==
  Dispatch(GrantChangeFrame(playerUuid), sendToServers(GrantChangeFrame(playerUuid)))

notifyRankChange(rankId) ==
  Dispatch(RankChangeFrame(rankId), broadcast(RankChangeFrame(rankId), NoClient))

notifyPlayerUpdate(playerUuid) ==
  Dispatch(PlayerUpdateFrame(playerUuid), sendToServers(PlayerUpdateFrame(playerUuid)))

notifyPunishmentExecute(playerUuid, punishmentType) ==
  Dispatch(PunishExecuteFrame(playerUuid, punishmentType),
           sendToProxy(PunishExecuteFrame(playerUuid, punishmentType)))

sendPrivateMessage(targetPlayer) ==
  Dispatch(PrivateMessageFrame(targetPlayer), sendToServers(PrivateMessageFrame(targetPlayer)))

\* sendToType called with a frame for one role: a private message for the
\* game servers, a punishment for the proxies
TypedFrames ==
  {<<"server", PrivateMessageFrame(p)>> : p \in Players}
    \cup {<<"proxy", PunishExecuteFrame(p, t)>> : p \in Players, t \in PunishmentTypes}

sendToTypeCall(type, frame) == Dispatch(frame, sendToType(type, frame))

\* ---------------------------------------------------------------- inbound frames
\* JSON.parse(data.toString()): the decoded value, or a SyntaxError
JSONparse(data) ==
  CASE data = "{\"type\":\"CHAT\"}" -> [ok |-> TRUE, kind |-> "object", text |-> "{\"type\":\"CHAT\"}"]
    [] data = " 42"                 -> [ok |-> TRUE, kind |-> "number", text |-> "42"]
    [] data = "null"                -> [ok |-> TRUE, kind |-> "null", text |-> "null"]
    [] OTHER                        -> [ok |-> FALSE, kind |-> "none", text |-> ""]

\* JSON.stringify of a decoded value: its canonical text
JSONstringify(message) == message.text

\* reading message.type for the log line: a TypeError when message is null
TypeReadThrows(message) == message.kind = "null"

\* a handleMessage that relays a body it cannot decode as it came
handleMessage_RelayRaw(c, data) ==
  LET message == JSONparse(data) IN
  IF message.ok /\ ~TypeReadThrows(message)
    THEN RawFrame(JSONstringify(message), c)
    ELSE RawFrame(data, c)

\* handleMessage: the frame it hands to broadcast, NoFrame when the try block throws
handleMessage(c, data) ==
  LET message == JSONparse(data) IN
  IF message.ok /\ ~TypeReadThrows(message)
    THEN RawFrame(JSONstringify(message), c)
    ELSE NoFrame

\* a transport that goes on delivering 'message' events after it has left OPEN
OnMessage_AfterRemoval(c, data) ==
  LET frame == handleMessage(c, data)
      w == IF frame = NoFrame THEN NoSend ELSE broadcast(frame, c)
  IN
  /\ phase # "exited"
  /\ readyState[c] # "NONE"
  /\ HasHandlers(c)
  /\ inbound' = [from |-> c, data |-> data]
  /\ dispatch' = frame
  /\ sent' = w
  /\ thrown' = FALSE
  /\ response' = NoResponse
  /\ UNCHANGED wsVars
  /\ UNCHANGED apiVars

\* client.on('message')
OnMessage(c, data) ==
  LET frame == handleMessage(c, data)
      w == IF frame = NoFrame THEN NoSend ELSE broadcast(frame, c)
  IN
  /\ phase # "exited"
  /\ readyState[c] = "OPEN"
  /\ HasHandlers(c)
  /\ inbound' = [from |-> c, data |-> data]
  /\ dispatch' = frame
  /\ sent' = w
  /\ thrown' = FALSE       \* broadcast runs inside the try block
  /\ response' = NoResponse
  /\ UNCHANGED wsVars
  /\ UNCHANGED apiVars

\* ---------------------------------------------------------------- diagnostics
\* getConnectedServers(): one entry per member of clients
getConnectedServers ==
  [c \in clients |-> [type |-> serverType[c], name |-> serverName[c], alive |-> isAlive[c]]]

\* getConnectionCount(): clients.size
getConnectionCount == Cardinality(clients)

\* a getServerCount that counts every member
getServerCount_All == Cardinality(clients)

\* getServerCount(): members whose serverType is 'server'
getServerCount == Cardinality({c \in clients : serverType[c] = "server"})

\* getProxyCount(): members whose serverType is 'proxy'
getProxyCount == Cardinality({c \in clients : serverType[c] = "proxy"})

\* GET /ws, the info endpoint: it answers with the four diagnostics
wsInfo ==
  /\ phase = "running"
  /\ response' = Reply(200, "GET /ws", NULL)
                   @@ [connectedServers |-> getConnectedServers,
                       total |-> getConnectionCount,
                       servers |-> getServerCount,
                       proxies |-> getProxyCount]
  /\ Dispatch(NoFrame, NoSend)
  /\ UNCHANGED apiVars

\* a notify* call made from outside the REST layer
FromOutside == response' = NoResponse /\ UNCHANGED apiVars

Next ==
  \/ \E r \in Requests : Connection(r[1], r[2], r[3])
  \/ \E c \in Conns : RemoteClose(c)
  \/ \E c \in Conns : OnClose(c)
  \/ \E c \in Conns : OnError(c)
  \/ \E c \in Conns : OnPong(c)
  \/ KeepaliveInterval
  \/ \E p \in Players : notifyGrantChange(p) /\ FromOutside
  \/ \E r \in Ranks : notifyRankChange(r) /\ FromOutside
  \/ \E p \in Players : notifyPlayerUpdate(p) /\ FromOutside
  \/ \E p \in Players, t \in PunishmentTypes : notifyPunishmentExecute(p, t) /\ FromOutside
  \/ \E p \in Players : sendPrivateMessage(p) /\ FromOutside
  \/ \E m \in TypedFrames : sendToTypeCall(m[1], m[2]) /\ FromOutside
  \/ \E c \in Conns, d \in Datas : OnMessage(c, d)
  \/ wsInfo

Spec == Init /\ [][Next]_vars

\* ---------------------------------------------------------------- Bun manager
\* the role a type parameter resolves to in the Bun manager:
\* typeParam === 'bungee' ? 'proxy' : 'server'
RoleOfBun(typeParam) == IF typeParam = "bungee" THEN "proxy" ELSE "server"

\* Bun manager: handleConnection(ws, req). It reads type and name only.
handleConnection(apiKey, typeParam, nameParam) ==
  LET c == nextId IN
  /\ phase = "running"
  /\ nextId <= MaxConns
  /\ nextId' = nextId + 1
  /\ req' = [req EXCEPT ![c] = [api_key |-> apiKey, type |-> typeParam, name |-> nameParam]]
  /\ readyState' = [readyState EXCEPT ![c] = "OPEN"]
  /\ isAlive' = [isAlive EXCEPT ![c] = TRUE]
  /\ authenticated' = [authenticated EXCEPT ![c] = TRUE]
  /\ serverType' = [serverType EXCEPT ![c] = RoleOfBun(typeParam)]
  /\ serverName' = [serverName EXCEPT ![c] = NameOf(nameParam)]
  /\ clients' = clients \cup {c}
  /\ sent' = [NoSend EXCEPT ![c] =
                <<ConnectedFrame(RoleOfBun(typeParam), NameOf(nameParam))>>]
  /\ pingInterval' = pingInterval \cup {c}
  /\ dispatch' = NoFrame
  /\ thrown' = FALSE
  /\ inbound' = NoInbound
  /\ response' = NoResponse
  /\ UNCHANGED <<interval, phase>>
  /\ UNCHANGED apiVars
  /\ UNCHANGED <<API_KEY, pings, evicted, broken>>

\* Bun manager: the per-client setInterval callback
pingIntervalTick(c) ==
  /\ phase # "exited"
  /\ c \in pingInterval
  /\ UNCHANGED broken
  /\ IF readyState[c] = "OPEN"
       THEN /\ pings[c] < MaxPings
            /\ pings' = ping(pings, c)
            /\ UNCHANGED pingInterval
       ELSE /\ pingInterval' = pingInterval \ {c}
            /\ UNCHANGED pings
  /\ sent' = NoSend
  /\ dispatch' = NoFrame
  /\ thrown' = FALSE
  /\ inbound' = NoInbound
  /\ response' = NoResponse
  /\ UNCHANGED <<interval, phase>>
  /\ UNCHANGED apiVars
  /\ UNCHANGED <<API_KEY, nextId, req, readyState, isAlive, authenticated, serverType,
                 serverName, clients, evicted>>

\* Bun manager: the peer answers the outstanding probes; no handler is
\* registered for the answer.
PongBun(c) ==
  /\ phase # "exited"
  /\ readyState[c] = "OPEN"
  /\ UNCHANGED broken
  /\ pings[c] > 0
  /\ pings' = [pings EXCEPT ![c] = 0]
  /\ sent' = NoSend
  /\ dispatch' = NoFrame
  /\ thrown' = FALSE
  /\ inbound' = NoInbound
  /\ response' = NoResponse
  /\ UNCHANGED <<interval, phase>>
  /\ UNCHANGED apiVars
  /\ UNCHANGED <<API_KEY, nextId, req, readyState, isAlive, authenticated, serverType,
                 serverName, clients, evicted, pingInterval>>

NextBun ==
  \/ \E r \in BunRequests : handleConnection(r[1], r[2], r[3])
  \/ \E c \in Conns : RemoteClose(c)
  \/ \E c \in Conns : OnClose(c)
  \/ \E c \in Conns : OnError(c)
  \/ \E c \in Conns : pingIntervalTick(c)
  \/ \E c \in Conns : PongBun(c)
  \/ \E p \in Players : notifyGrantChange(p) /\ FromOutside
  \/ \E r \in Ranks : notifyRankChange(r) /\ FromOutside
  \/ \E p \in Players : notifyPlayerUpdate(p) /\ FromOutside
  \/ \E p \in Players, t \in PunishmentTypes : notifyPunishmentExecute(p, t) /\ FromOutside
  \/ \E p \in Players : sendPrivateMessage(p) /\ FromOutside
  \/ \E m \in TypedFrames : sendToTypeCall(m[1], m[2]) /\ FromOutside
  \/ \E c \in Conns, d \in Datas : OnMessage(c, d)

SpecBun == Init /\ [][NextBun]_vars

\* ---------------------------------------------------------------- REST layer
\* a mutating step is one awaited statement and the code that follows it up
\* to the next awaited statement; one request is served at a time

\* an authMiddleware that only turns away requests without a key
authMiddleware_MissingOnly(apiKey, secret) ==
  IF Falsy(secret) THEN 0
  ELSE IF Falsy(apiKey) THEN 401
  ELSE 0

\* authMiddleware: the status it answers with, 0 when it calls next()
authMiddleware(apiKey, secret) ==
  IF Falsy(secret) THEN 0
  ELSE IF Falsy(apiKey) THEN 401
  ELSE IF apiKey # secret THEN 401
  ELSE 0

\* a handler step that dispatches nothing
NoDispatch == Dispatch(NoFrame, NoSend)

\* the status a handler answers with after a notify call: an exception
\* escaping the handler is turned into 500 by errorHandler
Status(ok) == IF thrown' THEN 500 ELSE ok

FreeGrantIds == {i \in GrantIds : ~grants[i].exists}
FreePunishmentIds == {i \in PunishmentIds : ~punishments[i].exists}
Min(S) == CHOOSE i \in S : \A j \in S : i <= j

\* a request arrives: the route aggregator serves /health itself, every other
\* route runs authMiddleware first. The auto-increment ids are bounded.
Request(route, apiKey, id, name, flag) ==
  LET r == [route |-> route, key |-> apiKey, id |-> id, name |-> name, flag |-> flag,
            pc |-> "done"]
  IN
  /\ phase = "running"
  /\ call = NoCall
  /\ route = "POST /api/grants" => FreeGrantIds # {}
  /\ route = "POST /api/punishments" => FreePunishmentIds # {}
  /\ IF route = Health THEN
       /\ response' = Reply(200, route, apiKey)
       /\ UNCHANGED call
     ELSE IF authMiddleware(apiKey, API_KEY) # 0 THEN
       /\ response' = Reply(authMiddleware(apiKey, API_KEY), route, apiKey)
       /\ UNCHANGED call
     ELSE
       /\ response' = NoResponse
       /\ call' = [r EXCEPT !.pc = "handler"]
  /\ NoDispatch
  /\ UNCHANGED <<grants, ranks, players, punishments>>

\* the handler answers and returns
Respond(status) ==
  /\ response' = Reply(status, call.route, call.key)
  /\ call' = NoCall

\* GET /api/grants/:id - GrantService.findById
GrantService_findById ==
  /\ call.route = "GET /api/grants/:id" /\ call.pc = "handler"
  /\ Respond(IF grants[call.id].exists THEN 200 ELSE 404)
  /\ NoDispatch
  /\ UNCHANGED <<grants, ranks, players, punishments>>

\* POST /api/grants - GrantService.save
GrantService_save ==
  LET id == Min(FreeGrantIds) IN
  /\ call.route = "POST /api/grants" /\ call.pc = "handler"
  /\ grants' = [grants EXCEPT ![id] = GrantRow(call.name, call.flag)]
  /\ notifyGrantChange(call.name)
  /\ Respond(Status(201))
  /\ UNCHANGED <<ranks, players, punishments>>

\* GrantService.updateActiveStatus and deleteById, first statement: findById
GrantService_find ==
  /\ call.route \in {"PUT /api/grants/:id/active", "DELETE /api/grants/:id"}
  /\ call.pc = "handler"
  /\ IF grants[call.id].exists
       THEN /\ call' = [call EXCEPT !.pc = "execute", !.name = grants[call.id].playerUuid]
            /\ response' = NoResponse
       ELSE Respond(404)
  /\ NoDispatch
  /\ UNCHANGED <<grants, ranks, players, punishments>>

\* PUT /api/grants/:id/active - GrantService.updateActiveStatus, the UPDATE
GrantService_updateActiveStatus ==
  /\ call.route = "PUT /api/grants/:id/active" /\ call.pc = "execute"
  /\ IF grants[call.id].exists
       THEN /\ grants' = [grants EXCEPT ![call.id].isActive = call.flag]
            /\ notifyGrantChange(call.name)
            /\ Respond(Status(200))
       ELSE /\ Respond(404)
            /\ NoDispatch
            /\ UNCHANGED grants
  /\ UNCHANGED <<ranks, players, punishments>>

\* DELETE /api/grants/:id - GrantService.deleteById, the DELETE
GrantService_deleteById ==
  /\ call.route = "DELETE /api/grants/:id" /\ call.pc = "execute"
  /\ IF grants[call.id].exists
       THEN /\ grants' = [grants EXCEPT ![call.id] = NoRow]
            /\ notifyGrantChange(call.name)
            /\ Respond(Status(200))
       ELSE /\ Respond(404)
            /\ NoDispatch
            /\ UNCHANGED grants
  /\ UNCHANGED <<ranks, players, punishments>>

\* DELETE /api/grants/player/:uuid - GrantService.deleteByPlayer
GrantService_deleteByPlayer ==
  /\ call.route = "DELETE /api/grants/player/:uuid" /\ call.pc = "handler"
  /\ grants' = [i \in GrantIds |->
                  IF grants[i].exists /\ grants[i].playerUuid = call.name
                    THEN NoRow ELSE grants[i]]
  /\ notifyGrantChange(call.name)
  /\ Respond(Status(200))
  /\ UNCHANGED <<ranks, players, punishments>>

\* POST /api/ranks - RankService.save
RankService_save ==
  /\ call.route = "POST /api/ranks" /\ call.pc = "handler"
  /\ ranks' = ranks \cup {call.name}
  /\ notifyRankChange(call.name)
  /\ Respond(Status(201))
  /\ UNCHANGED <<grants, players, punishments>>

\* a deleteById that notifies before it looks at affectedRows
RankService_deleteById_NotifyFirst ==
  /\ call.route = "DELETE /api/ranks/:id" /\ call.pc = "handler"
  /\ ranks' = ranks \ {call.name}
  /\ notifyRankChange(call.name)
  /\ Respond(IF call.name \in ranks THEN Status(200) ELSE 404)
  /\ UNCHANGED <<grants, players, punishments>>

\* DELETE /api/ranks/:id - RankService.deleteById
RankService_deleteById ==
  /\ call.route = "DELETE /api/ranks/:id" /\ call.pc = "handler"
  /\ IF call.name \in ranks
       THEN /\ ranks' = ranks \ {call.name}
            /\ notifyRankChange(call.name)
            /\ Respond(Status(200))
       ELSE /\ Respond(404)
            /\ NoDispatch
            /\ UNCHANGED ranks
  /\ UNCHANGED <<grants, players, punishments>>

\* POST /api/players - PlayerService.save
PlayerService_save ==
  /\ call.route = "POST /api/players" /\ call.pc = "handler"
  /\ players' = [players EXCEPT ![call.name] = PlayerRow(call.flag)]
  /\ notifyPlayerUpdate(call.name)
  /\ Respond(Status(201))
  /\ UNCHANGED <<grants, ranks, punishments>>

\* PUT /api/players/:uuid/online - PlayerService.updateOnlineStatus
PlayerService_updateOnlineStatus ==
  /\ call.route = "PUT /api/players/:uuid/online" /\ call.pc = "handler"
  /\ IF players[call.name].exists
       THEN /\ players' = [players EXCEPT ![call.name].isOnline = call.flag]
            /\ notifyPlayerUpdate(call.name)
            /\ Respond(Status(200))
       ELSE /\ Respond(404)
            /\ NoDispatch
            /\ UNCHANGED players
  /\ UNCHANGED <<grants, ranks, punishments>>

\* POST /api/punishments - PunishmentService.save
PunishmentService_save ==
  LET id == Min(FreePunishmentIds) IN
  /\ call.route = "POST /api/punishments" /\ call.pc = "handler"
  /\ punishments' = [punishments EXCEPT ![id] = PunishmentRow("p1", call.name, call.flag)]
  /\ call' = [call EXCEPT !.pc = "read", !.id = id]
  /\ response' = NoResponse
  /\ NoDispatch
  /\ UNCHANGED <<grants, ranks, players>>

\* POST /api/punishments - the findById that follows save
PunishmentService_findById ==
  /\ call.route = "POST /api/punishments" /\ call.pc = "read"
  /\ Respond(201)
  /\ NoDispatch
  /\ UNCHANGED <<grants, ranks, players, punishments>>

\* an execute() that has the proxy kick for every punishment
shouldKick_Always(type) == TRUE

\* the punishment types execute() has the proxy kick for
shouldKick(type) == type = "BAN" \/ type = "TEMPBAN" \/ type = "KICK"

\* POST /api/punishments/:id/execute - PunishmentService.execute up to its
\* UPDATE: findById, then the notification; call.flag holds the local kicked
PunishmentService_execute ==
  LET punishment == punishments[call.id] IN
  /\ call.route = "POST /api/punishments/:id/execute" /\ call.pc = "handler"
  /\ IF ~punishment.exists THEN
       /\ Respond(404)
       /\ NoDispatch
     ELSE
       /\ IF shouldKick(punishment.type)
            THEN notifyPunishmentExecute(punishment.playerUuid, punishment.type)
            ELSE NoDispatch
       /\ IF thrown'
            THEN Respond(500)
            ELSE /\ call' = [call EXCEPT !.pc = "execute",
                                            !.flag = shouldKick(punishment.type)]
                 /\ response' = NoResponse
  /\ UNCHANGED <<grants, ranks, players, punishments>>

\* PunishmentService.execute, the UPDATE that marks the punishment executed
PunishmentService_markExecuted ==
  /\ call.route = "POST /api/punishments/:id/execute" /\ call.pc = "execute"
  /\ punishments' = [punishments EXCEPT ![call.id].executed = TRUE]
  /\ response' = [Reply(200, call.route, call.key) EXCEPT !.kicked = call.flag]
  /\ call' = NoCall
  /\ NoDispatch
  /\ UNCHANGED <<grants, ranks, players>>

\* connection attempts the handshake admits
Admitted == {r \in Requests : ~KeyRejected(r[1], API_KEY) /\ RoleOf(r[2]) # "undefined"}

NextApi ==
  \/ \E r \in Admitted : Connection(r[1], r[2], r[3])
  \/ \E c \in Conns : OnClose(c)
  \/ \E h \in HttpRequests : Request(h[1][1], h[2], h[1][2], h[1][3], h[1][4])
  \/ GrantService_findById
  \/ GrantService_save
  \/ GrantService_find
  \/ GrantService_updateActiveStatus
  \/ GrantService_deleteById
  \/ GrantService_deleteByPlayer
  \/ RankService_save
  \/ RankService_deleteById
  \/ PlayerService_save
  \/ PlayerService_updateOnlineStatus
  \/ PunishmentService_save
  \/ PunishmentService_findById
  \/ PunishmentService_execute
  \/ PunishmentService_markExecuted

SpecApi == Init /\ [][NextApi]_vars

\* ---------------------------------------------------------------- cleanup of expired rows
\* the rows the WHERE clause of both cleanup statements matches:
\* is_active = 1 AND expires_at IS NOT NULL AND expires_at <= datetime('now')
ExpiredActive(table) ==
  {i \in DOMAIN table : table[i].exists /\ table[i].isActive /\ table[i].expired}

\* SELECT DISTINCT player_uuid over those rows
SelectDistinctPlayers(table) == {table[i].playerUuid : i \in ExpiredActive(table)}

\* UPDATE ... SET is_active = 0 over those rows
DeactivateExpired(table) ==
  [i \in DOMAIN table |->
     IF i \in ExpiredActive(table) THEN [table[i] EXCEPT !.isActive = FALSE] ELSE table[i]]

\* the requests of the cleanup scenario: one grant and one punishment are
\* stored, and each cleanup route is called
CleanupRequests ==
  { <<"POST /api/grants", 0, "p1", TRUE>>,
    <<"POST /api/punishments", 0, "BAN", FALSE>>,
    <<"POST /api/grants/cleanup-expired", 0, NULL, FALSE>>,
    <<"POST /api/punishments/cleanup-expired", 0, NULL, FALSE>> }

\* time passes between two statements: the expires_at of a stored grant is
\* reached
ExpireGrant(i) ==
  /\ grants[i].exists /\ ~grants[i].expired
  /\ grants' = [grants EXCEPT ![i].expired = TRUE]
  /\ response' = NoResponse
  /\ NoDispatch
  /\ UNCHANGED <<ranks, players, punishments, call>>

\* time passes: the expires_at of a stored punishment is reached
ExpirePunishment(i) ==
  /\ punishments[i].exists /\ ~punishments[i].expired
  /\ punishments' = [punishments EXCEPT ![i].expired = TRUE]
  /\ response' = NoResponse
  /\ NoDispatch
  /\ UNCHANGED <<grants, ranks, players, call>>

\* cleanupExpiredGrants, the awaited SELECT: call.name holds expiredGrants, the
\* player selected (Players has one member), NULL when no row is selected
GrantService_selectExpired ==
  LET expiredGrants == SelectDistinctPlayers(grants) IN
  /\ call.route = "POST /api/grants/cleanup-expired" /\ call.pc = "handler"
  /\ call' = [call EXCEPT !.pc = "execute",
                          !.name = IF expiredGrants = {} THEN NULL
                                   ELSE CHOOSE p \in expiredGrants : TRUE]
  /\ response' = NoResponse
  /\ NoDispatch
  /\ UNCHANGED <<grants, ranks, players, punishments>>

\* cleanupExpiredGrants, the awaited UPDATE and the loop that notifies the
\* players of expiredGrants
GrantService_cleanupExpiredGrants ==
  /\ call.route = "POST /api/grants/cleanup-expired" /\ call.pc = "execute"
  /\ grants' = DeactivateExpired(grants)
  /\ IF call.name # NULL THEN notifyGrantChange(call.name) ELSE NoDispatch
  /\ Respond(Status(200))
  /\ UNCHANGED <<ranks, players, punishments>>

\* cleanupExpiredPunishments, the awaited SELECT
PunishmentService_selectExpired ==
  LET expiredPunishments == SelectDistinctPlayers(punishments) IN
  /\ call.route = "POST /api/punishments/cleanup-expired" /\ call.pc = "handler"
  /\ call' = [call EXCEPT !.pc = "execute",
                          !.name = IF expiredPunishments = {} THEN NULL
                                   ELSE CHOOSE p \in expiredPunishments : TRUE]
  /\ response' = NoResponse
  /\ NoDispatch
  /\ UNCHANGED <<grants, ranks, players, punishments>>

\* cleanupExpiredPunishments, the awaited UPDATE and the notification loop
PunishmentService_cleanupExpiredPunishments ==
  /\ call.route = "POST /api/punishments/cleanup-expired" /\ call.pc = "execute"
  /\ punishments' = DeactivateExpired(punishments)
  /\ IF call.name # NULL THEN notifyPlayerUpdate(call.name) ELSE NoDispatch
  /\ Respond(Status(200))
  /\ UNCHANGED <<grants, ranks, players>>

NextCleanup ==
  \/ \E r \in Admitted : Connection(r[1], r[2], r[3])
  \/ \E c \in Conns : OnClose(c)
  \/ \E q \in CleanupRequests : Request(q[1], "k1", q[2], q[3], q[4])
  \/ GrantService_save
  \/ PunishmentService_save
  \/ PunishmentService_findById
  \/ \E i \in GrantIds : ExpireGrant(i)
  \/ \E i \in PunishmentIds : ExpirePunishment(i)
  \/ GrantService_selectExpired
  \/ GrantService_cleanupExpiredGrants
  \/ PunishmentService_selectExpired
  \/ PunishmentService_cleanupExpiredPunishments

SpecCleanup == Init /\ [][NextCleanup]_vars

\* ---------------------------------------------------------------- failing transports
\* the quiet record of a handler that writes nothing
Quiet ==
  /\ sent' = NoSend
  /\ dispatch' = NoFrame
  /\ thrown' = FALSE
  /\ inbound' = NoInbound
  /\ response' = NoResponse

\* the socket under an open transport breaks: from now on every write to it
\* fails, while readyState still reads OPEN
Break(c) ==
  /\ phase # "exited"
  /\ readyState[c] = "OPEN"
  /\ c \notin broken
  /\ broken' = broken \cup {c}
  /\ Quiet
  /\ UNCHANGED <<API_KEY, nextId, req, readyState, isAlive, authenticated, serverType,
                 serverName, clients, pings, evicted, pingInterval, interval, phase>>
  /\ UNCHANGED apiVars

\* the library learns of the failed write: it destroys the socket and leaves
\* OPEN; the 'close' event follows
SocketError(c) ==
  /\ phase # "exited"
  /\ c \in broken
  /\ readyState' = [readyState EXCEPT ![c] = "CLOSING"]
  /\ broken' = broken \ {c}
  /\ Quiet
  /\ UNCHANGED <<API_KEY, nextId, req, isAlive, authenticated, serverType,
                 serverName, clients, pings, evicted, pingInterval, interval, phase>>
  /\ UNCHANGED apiVars

NextFault ==
  \/ Next
  \/ \E c \in Conns : Break(c)
  \/ \E c \in Conns : SocketError(c)

SpecFault == Init /\ [][NextFault]_vars

\* the event loop delivers the socket's events: a broken socket is found out,
\* and a transport that left OPEN gets its 'close' event
FairFault ==
  /\ SpecFault
  /\ \A c \in Conns : WF_vars(SocketError(c))
  /\ \A c \in Conns : WF_vars(OnClose(c))

\* ---------------------------------------------------------------- shutdown
\* shutdown(), up to its await: server.stop() ends listening
shutdown ==
  /\ phase = "running"
  /\ phase' = "stopping"
  /\ Quiet
  /\ UNCHANGED <<API_KEY, nextId, req, readyState, isAlive, authenticated, serverType,
                 serverName, clients, pings, evicted, pingInterval, interval, broken>>
  /\ UNCHANGED apiVars

\* shutdown(), after closePool(): process.exit(0)
processExit ==
  /\ phase = "stopping"
  /\ phase' = "exited"
  /\ Quiet
  /\ UNCHANGED <<API_KEY, nextId, req, readyState, isAlive, authenticated, serverType,
                 serverName, clients, pings, evicted, pingInterval, interval, broken>>
  /\ UNCHANGED apiVars

NextShutdown ==
  \/ Next
  \/ shutdown
  \/ processExit

SpecShutdown == Init /\ [][NextShutdown]_vars

\* ================================================================ properties
\* number of copies of frame f the last handler wrote to c
Copies(c, f) == Cardinality({i \in DOMAIN sent[c] : sent[c][i] = f})

Open(c) == readyState[c] = "OPEN"
Attempted(c) == readyState[c] # "NONE"
BadSecret(c) == req[c].api_key # API_KEY
BadToken(c) == req[c].type \notin {"bungee", "paper"}

WorkerFrames ==
  {GrantChangeFrame(p) : p \in Players} \cup {PlayerUpdateFrame(p) : p \in Players}
    \cup {PrivateMessageFrame(p) : p \in Players}
ProxyFrames == {PunishExecuteFrame(p, t) : p \in Players, t \in PunishmentTypes}
AllFrames == {RankChangeFrame(r) : r \in Ranks}
RawFramesFrom(a) ==
  {RawFrame(JSONstringify(JSONparse(d)), a) : d \in {x \in Datas : JSONparse(x).ok}}

\* C1 (as stated): a GRANT_CHANGE, PLAYER_UPDATE or PRIVATE_MESSAGE dispatch
\* writes exactly one copy to every registered Worker connection and nothing
\* to any registered Proxy connection.
C1_EveryRegisteredWorker ==
  dispatch \in WorkerFrames =>
    \A c \in clients : Copies(c, dispatch) = IF serverType[c] = "server" THEN 1 ELSE 0

\* C1 (amended): a GRANT_CHANGE, PLAYER_UPDATE or PRIVATE_MESSAGE dispatch
\* writes exactly one copy to every registered Worker connection whose
\* transport is open, and nothing at all to any other connection (Proxy
\* connections, and registered connections whose transport is closing).
C1_WorkerEventsToOpenWorkers ==
  dispatch \in WorkerFrames =>
    \A c \in Conns :
      sent[c] = IF c \in clients /\ serverType[c] = "server" /\ Open(c)
                  THEN <<dispatch>> ELSE <<>>

\* a Worker has just received a GRANT_CHANGE while an open Proxy got nothing
C1_Witness ==
  \E w \in clients, x \in clients :
    /\ serverType[w] = "server" /\ serverType[x] = "proxy"
    /\ Open(w) /\ Open(x)
    /\ sent[w] = <<GrantChangeFrame("p1")>>
    /\ sent[x] = <<>>

\* C2 (as stated): a PUNISH_EXECUTE dispatch writes exactly one copy to every
\* registered Proxy connection and nothing to any registered Worker connection.
C2_EveryRegisteredProxy ==
  dispatch \in ProxyFrames =>
    \A c \in clients : Copies(c, dispatch) = IF serverType[c] = "proxy" THEN 1 ELSE 0

\* C2 (amended): a PUNISH_EXECUTE dispatch writes exactly one copy to every
\* registered Proxy connection whose transport is open, and nothing at all to
\* any other connection.
C2_PunishToOpenProxies ==
  dispatch \in ProxyFrames =>
    \A c \in Conns :
      sent[c] = IF c \in clients /\ serverType[c] = "proxy" /\ Open(c)
                  THEN <<dispatch>> ELSE <<>>

\* a Proxy has just received a PUNISH_EXECUTE while an open Worker got nothing
C2_Witness ==
  \E x \in clients, w \in clients :
    /\ serverType[x] = "proxy" /\ serverType[w] = "server"
    /\ Open(x) /\ Open(w)
    /\ sent[x] = <<PunishExecuteFrame("p1", "BAN")>>
    /\ sent[w] = <<>>

\* C3 (as stated): a RANK_CHANGE dispatch writes exactly one copy to every
\* registered connection of either role.
C3_EveryRegistered ==
  dispatch \in AllFrames => \A c \in clients : Copies(c, dispatch) = 1

\* C3 (amended): a RANK_CHANGE dispatch writes exactly one copy to every
\* registered connection of either role whose transport is open, and nothing
\* to any other connection.
C3_RankChangeToOpenClients ==
  dispatch \in AllFrames =>
    \A c \in Conns :
      sent[c] = IF c \in clients /\ Open(c) THEN <<dispatch>> ELSE <<>>

\* a Proxy and a Worker have both just received the same RANK_CHANGE
C3_Witness ==
  \E x \in clients, w \in clients :
    /\ serverType[x] = "proxy" /\ serverType[w] = "server"
    /\ sent[x] = <<RankChangeFrame("vip")>>
    /\ sent[w] = <<RankChangeFrame("vip")>>

\* C4 (as stated): an inbound frame from registered connection a is written
\* to every other registered connection and never back to a.
C4_EveryOtherRegistered ==
  \A a \in Conns :
    dispatch \in RawFramesFrom(a) =>
      /\ a \in clients
      /\ Copies(a, dispatch) = 0
      /\ \A c \in clients \ {a} : Copies(c, dispatch) = 1

\* C4 (amended): an inbound frame from registered connection a is written
\* exactly once to every other registered connection whose transport is open,
\* whatever its role, and to no other connection; it is never written back
\* to a.
C4_RebroadcastToOpenOthers ==
  \A a \in Conns :
    dispatch \in RawFramesFrom(a) =>
      /\ a \in clients
      /\ \A c \in Conns :
           sent[c] = IF c # a /\ c \in clients /\ Open(c) THEN <<dispatch>> ELSE <<>>

\* connection a's frame has just been rebroadcast to the other registered
\* connection, of the other role, and not to a
C4_Witness ==
  \E a \in clients, b \in clients :
    /\ a # b /\ serverType[a] # serverType[b]
    /\ Open(a)
    /\ sent[b] = <<RawFrame("{\"type\":\"CHAT\"}", a)>>
    /\ sent[a] = <<>>

\* C5: every member of the registry has authenticated set, a role of proxy or
\* server, and passed the handshake checks: the secret it supplied matches the
\* configured one (when one is configured) and its role token is a known one.
C5_MembersPassedHandshake ==
  \A c \in clients :
    /\ authenticated[c]
    /\ serverType[c] \in {"proxy", "server"}
    /\ API_KEY = "" \/ req[c].api_key = API_KEY
    /\ ~BadToken(c)

\* C6: an admitted connection came with the token "bungee" and is a proxy, or
\* with the token "paper" and is a server; an attempt with any other token, or
\* none, is never admitted under any role.
C6_OnlyKnownTokensAdmitted ==
  \A c \in Conns :
    Attempted(c) =>
      /\ BadToken(c) => ~authenticated[c] /\ c \notin clients
      /\ authenticated[c] /\ req[c].type = "bungee" => serverType[c] = "proxy"
      /\ authenticated[c] /\ req[c].type = "paper" => serverType[c] = "server"

\* C7: with no secret configured, every attempt with a valid role token was
\* admitted, whatever secret it supplied, also when it supplied none.
C7_InsecureModeAdmitsAll ==
  API_KEY = "" =>
    \A c \in Conns : Attempted(c) /\ ~BadToken(c) => authenticated[c]

\* C8: the handshake step that rejects a connection (wrong secret, or invalid
\* or missing role token) writes it exactly one frame, an ERROR frame, and
\* leaves its transport closing and the connection outside the registry; no
\* later step writes it anything, reopens it or registers it.
C8_RejectedGetsOneErrorThenNothing ==
  [][\A c \in Conns :
       /\ (readyState[c] = "NONE" /\ readyState'[c] # "NONE"
             /\ (req'[c].api_key # API_KEY' \/ req'[c].type \notin {"bungee", "paper"}))
            => /\ Len(sent'[c]) = 1
               /\ sent'[c][1].type = "ERROR"
               /\ readyState'[c] \in {"CLOSING", "CLOSED"}
               /\ ~authenticated'[c]
               /\ c \notin clients'
       /\ (Attempted(c) /\ (BadSecret(c) \/ BadToken(c)))
            => /\ sent'[c] = <<>>
               /\ readyState'[c] \in {"CLOSING", "CLOSED"}
               /\ c \notin clients'
    ]_vars

\* a rejected connection, its transport closing, got nothing from a dispatch
\* that has just written to a registered connection
C8_Witness ==
  \E c \in Conns, d \in clients :
    /\ Attempted(c) /\ (BadSecret(c) \/ BadToken(c))
    /\ readyState[c] = "CLOSING"
    /\ sent[c] = <<>>
    /\ sent[d] = <<RankChangeFrame("vip")>>

\* C9: a connection that has left the probes of two ticks in a row unanswered
\* is out of the registry once the second tick is over.
C9_EvictedBySecondTick ==
  \A c \in clients : pings[c] < 2

\* C10: the keepalive interval never terminates a connection whose transport
\* is open and which has answered every probe sent to it.
C10_AcknowledgingNeverEvicted ==
  [][\A c \in Conns :
       (c \in evicted' /\ c \notin evicted) => ~(Open(c) /\ pings[c] = 0)
    ]_vars

\* connection c is registered, open and has answered every probe, while a
\* connection accepted after it has been evicted: c lived through the two
\* ticks that evicted the other and answered both probes
C10_Witness ==
  \E c \in clients, d \in evicted :
    /\ c < d
    /\ Open(c) /\ isAlive[c] /\ pings[c] = 0

\* ---------------------------------------------------------------- C11..C20
\* the connections a dispatch of frame f selects: the registered connections
\* of the role f is routed to whose transport is open
Recipients(f) ==
  {c \in clients :
     /\ Open(c)
     /\ f \in WorkerFrames => serverType[c] = "server"
     /\ f \in ProxyFrames => serverType[c] = "proxy"
     /\ f.type = "RAW" => c # f.from}

\* the last handler wrote to c and c's socket failed the write
WriteFailed(c) == c \in broken /\ sent[c] # <<>>

Undecodable == {"{oops"}
WellFormed == {"{\"type\":\"CHAT\"}"}

\* C13: an inbound frame that does not decode is dropped: the handler writes
\* nothing to any connection and leaves the registry and every transport as
\* they were, the sender registered and open; a well-formed frame the sender
\* sends next is rebroadcast to the other open registered connections.
C13_DecodeFailureDropped ==
  [][\A c \in Conns :
       /\ (inbound'.from = c /\ inbound'.data \in Undecodable)
            => /\ sent' = NoSend
               /\ dispatch' = NoFrame
               /\ clients' = clients /\ readyState' = readyState
               /\ c \in clients' /\ readyState'[c] = "OPEN"
       /\ (inbound.from = c /\ inbound.data \in Undecodable
             /\ inbound'.from = c /\ inbound'.data \in WellFormed)
            => \A d \in clients' \ {c} :
                 readyState'[d] = "OPEN" => sent'[d] = <<RawFrame(inbound'.data, c)>>
    ]_vars

\* connection c has just sent a frame that does not decode; it is registered
\* and open, and the other open registered connection was written nothing
C13_Witness ==
  \E c \in clients, d \in clients :
    /\ c # d /\ Open(c) /\ Open(d)
    /\ inbound = [from |-> c, data |-> "{oops"]
    /\ sent[d] = <<>>

\* the storage mutation of the request in hand, r, is in the tables t
Committed(r, g, rk, pl, pu) ==
  /\ r.route = "POST /api/grants" =>
       \E i \in GrantIds : g[i] = GrantRow(r.name, r.flag)
  /\ r.route = "PUT /api/grants/:id/active" =>
       g[r.id].exists /\ g[r.id].isActive = r.flag
  /\ r.route = "DELETE /api/grants/:id" => ~g[r.id].exists
  /\ r.route = "DELETE /api/grants/player/:uuid" =>
       \A i \in GrantIds : g[i].exists => g[i].playerUuid # r.name
  /\ r.route = "POST /api/ranks" => r.name \in rk
  /\ r.route = "DELETE /api/ranks/:id" => r.name \notin rk
  /\ r.route = "POST /api/players" => pl[r.name] = PlayerRow(r.flag)
  /\ r.route = "PUT /api/players/:uuid/online" =>
       pl[r.name].exists /\ pl[r.name].isOnline = r.flag
  /\ r.route = "POST /api/punishments/:id/execute" =>
       pu[r.id].exists /\ pu[r.id].executed

\* C14: a step of a CRUD operation that writes a notification leaves the
\* operation's storage mutation committed: no notification is written before
\* the mutation it announces.
C14_NotifyAfterCommit ==
  [][(call.pc # "done" /\ call' # call /\ dispatch' # NoFrame
        /\ \E c \in Conns : sent'[c] = <<dispatch'>>)
       => Committed(call, grants', ranks', players', punishments')
    ]_vars

\* C15: a connection that is not in the registry has no open transport: once
\* removed (close, error, eviction) or rejected, its transport is closing or
\* closed.
C15_RemovedMeansTornDown ==
  \A c \in Conns : (Attempted(c) /\ c \notin clients) => ~Open(c)

\* one connection was evicted and its close handler removed it, another was
\* removed by its error handler and is closing
C15_Witness ==
  \E c \in evicted, d \in Conns :
    /\ c \notin clients /\ readyState[c] = "CLOSED"
    /\ authenticated[d] /\ d \notin clients /\ readyState[d] = "CLOSING"

\* C16: when the process has exited through shutdown, every connection has
\* been closed and removed from the registry and the keepalive interval has
\* been cleared.
C16_ShutdownClosesAll ==
  phase = "exited" =>
    /\ clients = {}
    /\ \A c \in Conns : ~Open(c)
    /\ ~interval

\* C17: a removal of a connection that is already out of the registry (the
\* close handler running after the error handler) changes nothing and raises
\* nothing, and a removal of a member takes out that member only.
C17_RemovalIdempotent ==
  [][\A c \in Conns :
       /\ (authenticated[c] /\ c \notin clients
             /\ readyState[c] # "CLOSED" /\ readyState'[c] = "CLOSED")
            => clients' = clients /\ ~thrown'
       /\ (c \in clients /\ c \notin clients')
            => clients' = clients \ {c} /\ ~thrown'
    ]_vars

\* the error handler has removed connection c, whose close handler is still
\* to run, while another connection is registered
C17_Witness ==
  \E c \in Conns, d \in clients :
    /\ authenticated[c] /\ c \notin clients /\ readyState[c] = "CLOSING"
    /\ c # d /\ Open(d)

\* C18 (as stated): a dispatch writes each connection the whole frame once or
\* nothing, raises nothing, leaves the registry alone, and writes exactly one
\* copy to every selected connection that is registered before and after it.
C18_EveryStayingMemberOnce ==
  [][dispatch' # NoFrame =>
       /\ ~thrown'
       /\ \A c \in Conns : sent'[c] = <<>> \/ sent'[c] = <<dispatch'>>
       /\ \A c \in clients \cap clients' :
            (/\ dispatch' \in WorkerFrames => serverType[c] = "server"
             /\ dispatch' \in ProxyFrames => serverType[c] = "proxy"
             /\ dispatch'.type = "RAW" => c # dispatch'.from)
              => sent'[c] = <<dispatch'>>
    ]_vars

\* C18 (amended): a dispatch writes each connection the whole frame once or
\* nothing, raises nothing, changes neither the registry nor any transport,
\* and writes exactly one copy to every selected connection that is registered
\* with its transport open before and after it; a connection removed before the
\* dispatch is written nothing.
C18_DispatchWholeFrameOnce ==
  [][dispatch' # NoFrame =>
       /\ ~thrown'
       /\ clients' = clients /\ readyState' = readyState
       /\ \A c \in Conns : sent'[c] = <<>> \/ sent'[c] = <<dispatch'>>
       /\ \A c \in Conns \ clients : sent'[c] = <<>>
       /\ \A c \in clients \cap clients' :
            (/\ readyState[c] = "OPEN" /\ readyState'[c] = "OPEN"
             /\ dispatch' \in WorkerFrames => serverType[c] = "server"
             /\ dispatch' \in ProxyFrames => serverType[c] = "proxy"
             /\ dispatch'.type = "RAW" => c # dispatch'.from)
              => sent'[c] = <<dispatch'>>
    ]_vars

\* a RANK_CHANGE has just been written to a registered connection and not to
\* a connection whose close handler had removed it before the dispatch
C18_Witness ==
  \E c \in Conns, d \in clients :
    /\ authenticated[c] /\ c \notin clients /\ readyState[c] = "CLOSED"
    /\ sent[c] = <<>>
    /\ sent[d] = <<RankChangeFrame("vip")>>

\* C19: the handshake step that admits a connection inserts it into the
\* registry and writes it one frame, a CONNECTED frame whose serverType is the
\* role of its token (bungee: proxy, paper: server) and whose serverName is the
\* label it supplied, "unknown" when it supplied none.
C19_AdmittedGetsConnectedFrame ==
  [][\A c \in Conns :
       (readyState[c] = "NONE" /\ authenticated'[c]) =>
         /\ c \in clients'
         /\ sent'[c] =
              << [type |-> "CONNECTED",
                  serverType |-> IF req'[c].type = "bungee" THEN "proxy" ELSE "server",
                  serverName |-> IF req'[c].name \in {NULL, ""}
                                   THEN "unknown" ELSE req'[c].name] >>
    ]_vars

\* a Proxy admitted with the label "lobby" and a Worker admitted without a
\* label, the Worker just welcomed as "unknown"
C19_Witness ==
  \E x \in clients, w \in clients :
    /\ serverType[x] = "proxy" /\ serverName[x] = "lobby"
    /\ req[w].type = "paper" /\ req[w].name \in {NULL, ""}
    /\ sent[w] = <<ConnectedFrame("server", "unknown")>>

\* C20: with a key configured, a request to a route under /api/players,
\* /api/grants, /api/ranks or /api/punishments whose X-API-Key header is
\* absent or different is answered 401 by a step that starts no handler,
\* leaves storage alone and dispatches nothing; /api/health is answered 200
\* whatever the key.
C20_UnauthorizedNeverRuns ==
  [][/\ (API_KEY # "" /\ call' # call /\ call'.pc = "handler")
          => call'.key = API_KEY
     /\ (API_KEY # "" /\ response' # NoResponse /\ response'.route # Health
           /\ response'.key # API_KEY)
          => /\ response'.status = 401
             /\ call' = NoCall
             /\ <<grants', ranks', players', punishments'>>
                  = <<grants, ranks, players, punishments>>
             /\ dispatch' = NoFrame /\ sent' = NoSend
     /\ (response' # NoResponse /\ response'.route = Health)
          => response'.status = 200
    ]_vars

\* a request without a key has just been answered 401 while a grant is stored
\* and a Worker is registered and open
C20_Witness ==
  /\ API_KEY = "k1"
  /\ response = Reply(401, "DELETE /api/grants/:id", NULL)
  /\ grants[1].exists
  /\ \E c \in clients : Open(c) /\ serverType[c] = "server"

\* ---------------------------------------------------------------- C21..C30
\* C21: a connection that a keepalive tick found with its liveness flag false
\* is, once the tick is over, out of the registry, with its transport
\* terminated, and is not listed or counted by the diagnostics.
C21_DeadRemovedByTick ==
  \A c \in evicted :
    /\ c \notin clients
    /\ ~Open(c)
    /\ c \notin DOMAIN getConnectedServers
    /\ getConnectionCount = Cardinality(clients \ evicted)

\* a step of the keepalive callback: it clears a member's liveness flag or
\* terminates a member
TickStep ==
  \/ \E c \in clients : isAlive[c] /\ ~isAlive'[c]
  \/ evicted' # evicted

\* the step is the pong handler of connection c answering a probe
PongStep(c) ==
  /\ readyState[c] = "OPEN" /\ pings[c] > 0 /\ pings'[c] = 0
  /\ clients' = clients /\ readyState' = readyState

\* C22 (as stated): a tick clears the flag of every member whose flag is true
\* and writes it exactly one probe; it writes no probe to a member it
\* terminates; the flag of an admitted connection becomes true again only in
\* the pong handler of that connection.
C22_EveryLiveMemberProbed ==
  [][/\ TickStep =>
          \A c \in clients :
            /\ isAlive[c] => ~isAlive'[c] /\ pings'[c] = pings[c] + 1
            /\ ~isAlive[c] => pings'[c] = pings[c]
     /\ \A c \in Conns :
          (authenticated[c] /\ ~isAlive[c] /\ isAlive'[c]) =>
             /\ PongStep(c)
             /\ \A d \in Conns \ {c} : isAlive'[d] = isAlive[d]
    ]_vars

\* C22 (amended): a tick clears the flag of every member whose flag is true
\* and writes exactly one probe to each of them whose transport is open, none
\* to one whose transport is closing; it writes no probe to a member it
\* terminates, whose transport is not open afterwards; the flag of an admitted
\* connection becomes true again only in the pong handler of that connection.
C22_LiveOpenMemberProbed ==
  [][/\ TickStep =>
          \A c \in clients :
            /\ isAlive[c] =>
                 /\ ~isAlive'[c]
                 /\ pings'[c] = pings[c] + (IF readyState[c] = "OPEN" THEN 1 ELSE 0)
            /\ ~isAlive[c] => pings'[c] = pings[c] /\ readyState'[c] # "OPEN"
     /\ \A c \in Conns :
          (authenticated[c] /\ ~isAlive[c] /\ isAlive'[c]) =>
             /\ PongStep(c)
             /\ \A d \in Conns \ {c} : isAlive'[d] = isAlive[d]
    ]_vars

\* one tick has terminated a member that left its probe unanswered and has
\* probed, once, a member whose flag was true
C22_Witness ==
  \E c \in clients, d \in clients \cap evicted :
    /\ Open(c) /\ ~isAlive[c] /\ pings[c] = 1
    /\ readyState[d] = "CLOSING" /\ ~isAlive[d] /\ pings[d] = 1

\* C23: an inbound frame whose body decodes, whatever the decoded value, is
\* rebroadcast: the handler dispatches the Raw frame of the decoded value and
\* writes it to every other registered connection whose transport is open.
C23_EveryDecodedFrameRebroadcast ==
  JSONparse(inbound.data).ok =>
    /\ dispatch = RawFrame(JSONstringify(JSONparse(inbound.data)), inbound.from)
    /\ \A c \in clients \ {inbound.from} : Open(c) => sent[c] = <<dispatch>>

\* the punishment types whose execution has the proxy kick the player
KickTypes == {"BAN", "TEMPBAN", "KICK"}

\* C24: execute of a stored punishment dispatches PUNISH_EXECUTE, written to
\* every open Proxy and to nobody else, exactly when its type is a kick type,
\* then sets executed and answers with kicked equal to whether the type is a
\* kick type, however many Proxies are registered; execute of a missing
\* punishment answers not-found, dispatches nothing and changes nothing.
C24_ExecuteKicksByType ==
  [][(call.route = "POST /api/punishments/:id/execute" /\ call' # call) =>
       LET p == punishments[call.id] IN
       /\ (call.pc = "handler" /\ ~p.exists) =>
            /\ response'.status = 404 /\ ~response'.kicked
            /\ dispatch' = NoFrame /\ sent' = NoSend
            /\ punishments' = punishments
       /\ (call.pc = "handler" /\ p.exists /\ p.type \in KickTypes) =>
            /\ dispatch' = PunishExecuteFrame(p.playerUuid, p.type)
            /\ \A c \in Conns :
                 sent'[c] = IF c \in clients /\ Open(c) /\ serverType[c] = "proxy"
                              THEN <<dispatch'>> ELSE <<>>
            /\ call'.pc = "execute"
       /\ (call.pc = "handler" /\ p.exists /\ p.type \notin KickTypes) =>
            /\ dispatch' = NoFrame /\ sent' = NoSend
            /\ call'.pc = "execute"
       /\ call.pc = "execute" =>
            /\ punishments'[call.id].executed
            /\ response'.status = 200
            /\ response'.kicked = (p.type \in KickTypes)
            /\ dispatch' = NoFrame /\ sent' = NoSend
    ]_vars

\* a MUTE has just been executed with a Proxy registered and open: it is
\* marked executed and the answer says nobody was kicked
C24_Witness ==
  /\ response.status = 200 /\ ~response.kicked
  /\ response.route = "POST /api/punishments/:id/execute"
  /\ punishments[1] = PunishmentRow("p1", "MUTE", TRUE)
  /\ \E c \in clients : Open(c) /\ serverType[c] = "proxy"

\* the mutations that fail with not-found on a missing row
NotFoundRoutes ==
  {"PUT /api/grants/:id/active", "DELETE /api/grants/:id", "DELETE /api/ranks/:id",
   "PUT /api/players/:uuid/online"}

\* C25: a step in which one of these mutations is answered not-found writes
\* no notification to any connection and leaves every table as it was.
C25_NotFoundChangesNothing ==
  [][(response'.status = 404 /\ response'.route \in NotFoundRoutes) =>
       /\ dispatch' = NoFrame /\ sent' = NoSend
       /\ <<grants', ranks', players', punishments'>> = <<grants, ranks, players, punishments>>
    ]_vars

\* the delete of a rank that is not stored has just been answered not-found
\* while a grant is stored and a connection is registered and open
C25_Witness ==
  /\ response.status = 404 /\ response.route = "DELETE /api/ranks/:id"
  /\ "vip" \notin ranks
  /\ grants[1].exists
  /\ \E c \in clients : Open(c)

\* the players whose rows a step deactivates in a table
Deactivated(before, after) ==
  {before[i].playerUuid :
     i \in {j \in DOMAIN before :
              before[j].exists /\ before[j].isActive /\ ~after[j].isActive}}

\* C26: the step of cleanupExpiredGrants that runs its UPDATE dispatches
\* GRANT_CHANGE for exactly the players who had a grant deactivated by it, and
\* the step of cleanupExpiredPunishments that runs its UPDATE dispatches
\* PLAYER_UPDATE for exactly the players who had a punishment deactivated by
\* it, whatever happened between the SELECT and the UPDATE.
C26_NotifiesExactlyDeactivated ==
  [][(call.pc = "execute" /\ call' # call) =>
       /\ call.route = "POST /api/grants/cleanup-expired" =>
            {p \in Players : dispatch' = GrantChangeFrame(p)} = Deactivated(grants, grants')
       /\ call.route = "POST /api/punishments/cleanup-expired" =>
            {p \in Players : dispatch' = PlayerUpdateFrame(p)}
              = Deactivated(punishments, punishments')
    ]_vars

\* connection c was admitted and has since been removed from the registry
Removed(c) == authenticated[c] /\ c \notin clients

\* C27: a message handler runs, and a Raw frame is rebroadcast, only for a
\* sender that is a member of the registry; once a connection has been removed
\* (close handler, error handler, eviction followed by its close) no frame
\* from it is written to any connection.
C27_RebroadcastOnlyFromMembers ==
  [][\A c \in Conns :
       /\ inbound'.from = c => c \in clients /\ c \in clients'
       /\ Removed(c) =>
            /\ inbound'.from # c
            /\ dispatch'.type = "RAW" => dispatch'.from # c
            /\ \A d \in Conns : \A i \in DOMAIN sent'[d] :
                 sent'[d][i].type = "RAW" => sent'[d][i].from # c
    ]_vars

\* the error handler has removed connection c, whose transport is not closed
\* yet, and a frame of the connection that is still registered has just been
\* handled
C27_Witness ==
  \E c \in Conns, d \in clients :
    /\ Removed(c) /\ readyState[c] = "CLOSING"
    /\ inbound.from = d /\ dispatch = RawFrame("{\"type\":\"CHAT\"}", d)

\* C28: the step that admits a connection writes it the CONNECTED frame first;
\* a connection that is not admitted yet is written nothing but the frame of
\* its own handshake, and a dispatched or rebroadcast frame is written only to
\* connections admitted, and so welcomed, by an earlier step.
C28_ConnectedFrameFirst ==
  [][\A c \in Conns :
       /\ (~authenticated[c] /\ authenticated'[c]) =>
            /\ readyState[c] = "NONE" /\ c \notin clients
            /\ sent'[c] # <<>> /\ sent'[c][1].type = "CONNECTED"
       /\ (~authenticated[c] /\ sent'[c] # <<>>) =>
            /\ readyState[c] = "NONE" /\ dispatch' = NoFrame
            /\ Len(sent'[c]) = 1 /\ sent'[c][1].type \in {"CONNECTED", "ERROR"}
       /\ (dispatch' # NoFrame /\ sent'[c] # <<>>) =>
            authenticated[c] /\ c \in clients
    ]_vars

\* the frame of the connection admitted first has just been rebroadcast to a
\* Worker admitted after it
C28_Witness ==
  \E d \in clients, c \in clients :
    /\ d < c /\ serverType[c] = "server"
    /\ inbound.from = d
    /\ sent[c] = <<RawFrame("42", d)>>

C30_RegistryChangesOnlyByInsertRemove ==
  [][/\ clients' # clients =>
          \/ \E c \in Conns \ clients :
               /\ clients' = clients \cup {c}
               /\ readyState[c] = "NONE" /\ authenticated'[c]
          \/ \E c \in clients :
               /\ clients' = clients \ {c}
               /\ readyState'[c] \in {"CLOSING", "CLOSED"}
     /\ \A c \in clients \cap clients' :
          serverType'[c] = serverType[c] /\ serverName'[c] = serverName[c]
     /\ (dispatch' # NoFrame \/ inbound' # NoInbound \/ response'.route = "GET /ws") =>
          clients' = clients
     /\ response'.route = "GET /ws" =>
          /\ response'.total = Cardinality(clients)
          /\ response'.total = response'.servers + response'.proxies
          /\ DOMAIN response'.connectedServers = clients
    ]_vars

\* the diagnostics have just reported one Worker and one Proxy, two in all
C30_Witness ==
  /\ response.route = "GET /ws"
  /\ response.total = 2 /\ response.servers = 1 /\ response.proxies = 1
  /\ \E c \in clients : readyState[c] = "CLOSING"

====
